---- MODULE Spec2Model ----
\* A model of go-license (src/license.go): the License entity, the
\* normalisation and ordered substring rules of License.GuessType, the file
\* locator (matchLicenseFile / getLicenseFile / complileLicensePatters) and the
\* directory scanner (guessFromDir) behind NewFromDir and NewLicencesFromDir.
\*
\* Go strings are modelled as sequences of one-character strings, so that
\* strings.ToLower, the two regular expressions of GuessType, strings.Contains
\* and the compiled file-name patterns are computed character by character.
\* A path is the sequence of its "/"-separated elements.
EXTENDS Integers, Sequences, FiniteSets, TLC

VARIABLES disk, ls, ret, lastGuess, inp, outp

vars == <<disk, ls, ret, lastGuess, inp, outp>>

----------------------------------------------------------------------------
\* Recognized license types (license.go, const block).

LicenseMIT == "MIT"
LicenseISC == "ISC"
LicenseBSD3Clause == "BSD-3-Clause"
LicenseBSD2Clause == "BSD-2-Clause"
LicenseApache20 == "Apache-2.0"
LicenseMPL20 == "MPL-2.0"
LicenseGPL20 == "GPL-2.0"
LicenseGPL30 == "GPL-3.0"
LicenseLGPL21 == "LGPL-2.1"
LicenseLGPL30 == "LGPL-3.0"
LicenseAGPL30 == "AGPL-3.0"
LicenseCDDL10 == "CDDL-1.0"
LicenseEPL10 == "EPL-1.0"
LicenseZlib == "zlib"
LicenseUnlicense == "Unlicense"

\* Various errors. nil is the absent error.
nil == "nil"
ErrNoLicenseFile == "license: unable to find any license file"
ErrUnrecognizedLicense == "license: could not guess license type"
ErrMultipleLicenses == "license: multiple license files found"

\* A slice of standardized license abbreviations
KnownLicenses ==
    <<LicenseMIT, LicenseISC, LicenseBSD3Clause, LicenseBSD2Clause,
      LicenseApache20, LicenseMPL20, LicenseGPL20, LicenseGPL30,
      LicenseLGPL21, LicenseLGPL30, LicenseAGPL30, LicenseCDDL10,
      LicenseEPL10, LicenseZlib, LicenseUnlicense>>

----------------------------------------------------------------------------
\* The literals GuessType scans for, in the order of its switch.

\* "permission is hereby granted, free of charge, to any person obtaining a copy of this software"
PhraseMIT ==
    <<"p","e","r","m","i","s","s","i","o","n"," ","i","s"," ","h","e","r",
      "e","b","y"," ","g","r","a","n","t","e","d",","," ","f","r","e","e",
      " ","o","f"," ","c","h","a","r","g","e",","," ","t","o"," ","a","n",
      "y"," ","p","e","r","s","o","n"," ","o","b","t","a","i","n","i","n",
      "g"," ","a"," ","c","o","p","y"," ","o","f"," ","t","h","i","s"," ",
      "s","o","f","t","w","a","r","e">>

\* "permission to use, copy, modify, and/or distribute this software for any"
PhraseISC ==
    <<"p","e","r","m","i","s","s","i","o","n"," ","t","o"," ","u","s","e",
      ","," ","c","o","p","y",","," ","m","o","d","i","f","y",","," ","a",
      "n","d","/","o","r"," ","d","i","s","t","r","i","b","u","t","e"," ",
      "t","h","i","s"," ","s","o","f","t","w","a","r","e"," ","f","o","r",
      " ","a","n","y">>

\* "apache license version 2.0, january 2004"
PhraseApache20 ==
    <<"a","p","a","c","h","e"," ","l","i","c","e","n","s","e"," ","v","e",
      "r","s","i","o","n"," ","2",".","0",","," ","j","a","n","u","a","r",
      "y"," ","2","0","0","4">>

\* "http://www.apache.org/licenses/license-2.0"
PhraseApache20URL ==
    <<"h","t","t","p",":","/","/","w","w","w",".","a","p","a","c","h","e",
      ".","o","r","g","/","l","i","c","e","n","s","e","s","/","l","i","c",
      "e","n","s","e","-","2",".","0">>

\* "gnu general public license version 2, june 1991"
PhraseGPL20 ==
    <<"g","n","u"," ","g","e","n","e","r","a","l"," ","p","u","b","l","i",
      "c"," ","l","i","c","e","n","s","e"," ","v","e","r","s","i","o","n",
      " ","2",","," ","j","u","n","e"," ","1","9","9","1">>

\* "gnu general public license version 3, 29 june 2007"
PhraseGPL30 ==
    <<"g","n","u"," ","g","e","n","e","r","a","l"," ","p","u","b","l","i",
      "c"," ","l","i","c","e","n","s","e"," ","v","e","r","s","i","o","n",
      " ","3",","," ","2","9"," ","j","u","n","e"," ","2","0","0","7">>

\* "gnu lesser general public license version 2.1, february 1999"
PhraseLGPL21 ==
    <<"g","n","u"," ","l","e","s","s","e","r"," ","g","e","n","e","r","a",
      "l"," ","p","u","b","l","i","c"," ","l","i","c","e","n","s","e"," ",
      "v","e","r","s","i","o","n"," ","2",".","1",","," ","f","e","b","r",
      "u","a","r","y"," ","1","9","9","9">>

\* "gnu lesser general public license version 3, 29 june 2007"
PhraseLGPL30 ==
    <<"g","n","u"," ","l","e","s","s","e","r"," ","g","e","n","e","r","a",
      "l"," ","p","u","b","l","i","c"," ","l","i","c","e","n","s","e"," ",
      "v","e","r","s","i","o","n"," ","3",","," ","2","9"," ","j","u","n",
      "e"," ","2","0","0","7">>

\* "gnu affero general public license version 3, 19 november 2007"
PhraseAGPL30 ==
    <<"g","n","u"," ","a","f","f","e","r","o"," ","g","e","n","e","r","a",
      "l"," ","p","u","b","l","i","c"," ","l","i","c","e","n","s","e"," ",
      "v","e","r","s","i","o","n"," ","3",","," ","1","9"," ","n","o","v",
      "e","m","b","e","r"," ","2","0","0","7">>

\* "mozilla public license"
PhraseMPL ==
    <<"m","o","z","i","l","l","a"," ","p","u","b","l","i","c"," ","l","i",
      "c","e","n","s","e">>

\* "version 2.0"
PhraseVersion20 ==
    <<"v","e","r","s","i","o","n"," ","2",".","0">>

\* "redistribution and use in source and binary forms"
PhraseBSD ==
    <<"r","e","d","i","s","t","r","i","b","u","t","i","o","n"," ","a","n",
      "d"," ","u","s","e"," ","i","n"," ","s","o","u","r","c","e"," ","a",
      "n","d"," ","b","i","n","a","r","y"," ","f","o","r","m","s">>

\* "neither the name of"
PhraseBSDNeither ==
    <<"n","e","i","t","h","e","r"," ","t","h","e"," ","n","a","m","e"," ",
      "o","f">>

\* "common development and distribution license (cddl) version 1.0"
PhraseCDDL10 ==
    <<"c","o","m","m","o","n"," ","d","e","v","e","l","o","p","m","e","n",
      "t"," ","a","n","d"," ","d","i","s","t","r","i","b","u","t","i","o",
      "n"," ","l","i","c","e","n","s","e"," ","(","c","d","d","l",")"," ",
      "v","e","r","s","i","o","n"," ","1",".","0">>

\* "eclipse public license - v 1.0"
PhraseEPL10 ==
    <<"e","c","l","i","p","s","e"," ","p","u","b","l","i","c"," ","l","i",
      "c","e","n","s","e"," ","-"," ","v"," ","1",".","0">>

\* "permission is granted to anyone to use this software for any purpose"
PhraseZlib ==
    <<"p","e","r","m","i","s","s","i","o","n"," ","i","s"," ","g","r","a",
      "n","t","e","d"," ","t","o"," ","a","n","y","o","n","e"," ","t","o",
      " ","u","s","e"," ","t","h","i","s"," ","s","o","f","t","w","a","r",
      "e"," ","f","o","r"," ","a","n","y"," ","p","u","r","p","o","s","e">>

\* "this is free and unencumbered software released into the public domain"
PhraseUnlicense ==
    <<"t","h","i","s"," ","i","s"," ","f","r","e","e"," ","a","n","d"," ",
      "u","n","e","n","c","u","m","b","e","r","e","d"," ","s","o","f","t",
      "w","a","r","e"," ","r","e","l","e","a","s","e","d"," ","i","n","t",
      "o"," ","t","h","e"," ","p","u","b","l","i","c"," ","d","o","m","a",
      "i","n">>
\* "hello world"
HelloWorld ==
    <<"h","e","l","l","o"," ","w","o","r","l","d">>
\* "Apache License\r\n                        Version 2.0, January 2004"
RefApacheHeading ==
    <<"A","p","a","c","h","e"," ","L","i","c","e","n","s","e","\r","\n"," ",
      " "," "," "," "," "," "," "," "," "," "," "," "," "," "," "," "," ",
      " "," "," "," "," "," ","V","e","r","s","i","o","n"," ","2",".","0",
      ","," ","J","a","n","u","a","r","y"," ","2","0","0","4">>
\* "Mozilla Public License Version 2.0"
RefMPLHeading ==
    <<"M","o","z","i","l","l","a"," ","P","u","b","l","i","c"," ","L","i",
      "c","e","n","s","e"," ","V","e","r","s","i","o","n"," ","2",".","0">>
\* "GNU GENERAL PUBLIC LICENSE\n   Version 2, June 1991"
RefGPL20Heading ==
    <<"G","N","U"," ","G","E","N","E","R","A","L"," ","P","U","B","L","I",
      "C"," ","L","I","C","E","N","S","E","\n"," "," "," ","V","e","r","s",
      "i","o","n"," ","2",","," ","J","u","n","e"," ","1","9","9","1">>
\* "Redistribution and use in source and binary forms"
RefBSD2 ==
    <<"R","e","d","i","s","t","r","i","b","u","t","i","o","n"," ","a","n",
      "d"," ","u","s","e"," ","i","n"," ","s","o","u","r","c","e"," ","a",
      "n","d"," ","b","i","n","a","r","y"," ","f","o","r","m","s">>

\* "Redistribution and use in source and\nbinary forms\nNeither the name of"
RefBSD3 ==
    <<"R","e","d","i","s","t","r","i","b","u","t","i","o","n"," ","a","n",
      "d"," ","u","s","e"," ","i","n"," ","s","o","u","r","c","e"," ","a",
      "n","d","\n","b","i","n","a","r","y"," ","f","o","r","m","s","\n","N",
      "e","i","t","h","e","r"," ","t","h","e"," ","n","a","m","e"," ","o",
      "f">>
\* "Permission is hereby granted, free of charge, to any person obtaining a copy\nof this software"
RefMIT ==
    <<"P","e","r","m","i","s","s","i","o","n"," ","i","s"," ","h","e","r",
      "e","b","y"," ","g","r","a","n","t","e","d",","," ","f","r","e","e",
      " ","o","f"," ","c","h","a","r","g","e",","," ","t","o"," ","a","n",
      "y"," ","p","e","r","s","o","n"," ","o","b","t","a","i","n","i","n",
      "g"," ","a"," ","c","o","p","y","\n","o","f"," ","t","h","i","s"," ",
      "s","o","f","t","w","a","r","e">>

\* "Permission to use, copy, modify, and/or distribute this software for any\npurpose"
RefISC ==
    <<"P","e","r","m","i","s","s","i","o","n"," ","t","o"," ","u","s","e",
      ","," ","c","o","p","y",","," ","m","o","d","i","f","y",","," ","a",
      "n","d","/","o","r"," ","d","i","s","t","r","i","b","u","t","e"," ",
      "t","h","i","s"," ","s","o","f","t","w","a","r","e"," ","f","o","r",
      " ","a","n","y","\n","p","u","r","p","o","s","e">>

\* "http://www.apache.org/licenses/LICENSE-2.0"
RefApacheURL ==
    <<"h","t","t","p",":","/","/","w","w","w",".","a","p","a","c","h","e",
      ".","o","r","g","/","l","i","c","e","n","s","e","s","/","L","I","C",
      "E","N","S","E","-","2",".","0">>

\* "GNU GENERAL PUBLIC LICENSE\nVersion 3, 29 June 2007"
RefGPL30 ==
    <<"G","N","U"," ","G","E","N","E","R","A","L"," ","P","U","B","L","I",
      "C"," ","L","I","C","E","N","S","E","\n","V","e","r","s","i","o","n",
      " ","3",","," ","2","9"," ","J","u","n","e"," ","2","0","0","7">>

\* "GNU LESSER GENERAL PUBLIC LICENSE\nVersion 2.1, February 1999"
RefLGPL21 ==
    <<"G","N","U"," ","L","E","S","S","E","R"," ","G","E","N","E","R","A",
      "L"," ","P","U","B","L","I","C"," ","L","I","C","E","N","S","E","\n",
      "V","e","r","s","i","o","n"," ","2",".","1",","," ","F","e","b","r",
      "u","a","r","y"," ","1","9","9","9">>

\* "GNU LESSER GENERAL PUBLIC LICENSE\nVersion 3, 29 June 2007"
RefLGPL30 ==
    <<"G","N","U"," ","L","E","S","S","E","R"," ","G","E","N","E","R","A",
      "L"," ","P","U","B","L","I","C"," ","L","I","C","E","N","S","E","\n",
      "V","e","r","s","i","o","n"," ","3",","," ","2","9"," ","J","u","n",
      "e"," ","2","0","0","7">>

\* "GNU AFFERO GENERAL PUBLIC LICENSE\nVersion 3, 19 November 2007"
RefAGPL30 ==
    <<"G","N","U"," ","A","F","F","E","R","O"," ","G","E","N","E","R","A",
      "L"," ","P","U","B","L","I","C"," ","L","I","C","E","N","S","E","\n",
      "V","e","r","s","i","o","n"," ","3",","," ","1","9"," ","N","o","v",
      "e","m","b","e","r"," ","2","0","0","7">>

\* "COMMON DEVELOPMENT AND DISTRIBUTION LICENSE (CDDL)\nVersion 1.0"
RefCDDL10 ==
    <<"C","O","M","M","O","N"," ","D","E","V","E","L","O","P","M","E","N",
      "T"," ","A","N","D"," ","D","I","S","T","R","I","B","U","T","I","O",
      "N"," ","L","I","C","E","N","S","E"," ","(","C","D","D","L",")","\n",
      "V","e","r","s","i","o","n"," ","1",".","0">>

\* "Eclipse Public License - v 1.0\n"
RefEPL10 ==
    <<"E","c","l","i","p","s","e"," ","P","u","b","l","i","c"," ","L","i",
      "c","e","n","s","e"," ","-"," ","v"," ","1",".","0","\n">>

\* "Permission is granted to anyone to use this software for any purpose,\nincluding"
RefZlib ==
    <<"P","e","r","m","i","s","s","i","o","n"," ","i","s"," ","g","r","a",
      "n","t","e","d"," ","t","o"," ","a","n","y","o","n","e"," ","t","o",
      " ","u","s","e"," ","t","h","i","s"," ","s","o","f","t","w","a","r",
      "e"," ","f","o","r"," ","a","n","y"," ","p","u","r","p","o","s","e",
      ",","\n","i","n","c","l","u","d","i","n","g">>

\* "This is free and unencumbered software released into the public domain.\n"
RefUnlicense ==
    <<"T","h","i","s"," ","i","s"," ","f","r","e","e"," ","a","n","d"," ",
      "u","n","e","n","c","u","m","b","e","r","e","d"," ","s","o","f","t",
      "w","a","r","e"," ","r","e","l","e","a","s","e","d"," ","i","n","t",
      "o"," ","t","h","e"," ","p","u","b","l","i","c"," ","d","o","m","a",
      "i","n",".","\n">>

----------------------------------------------------------------------------
\* Characters.

UpperCase ==
    <<"A","B","C","D","E","F","G","H","I","J","K","L","M",
      "N","O","P","Q","R","S","T","U","V","W","X","Y","Z">>

LowerCase ==
    <<"a","b","c","d","e","f","g","h","i","j","k","l","m",
      "n","o","p","q","r","s","t","u","v","w","x","y","z">>

\* unicode.ToLower on one (ASCII) character
ToLowerChar(c) ==
    IF \E k \in 1..Len(UpperCase) : UpperCase[k] = c
    THEN LowerCase[CHOOSE k \in 1..Len(UpperCase) : UpperCase[k] = c]
    ELSE c

\* strings.ToLower
ToLower(s) == [i \in 1..Len(s) |-> ToLowerChar(s[i])]

\* the Perl class \s of Go's regexp: [\t\n\f\r ]
IsSpace(c) == c \in {"\t", "\n", "\f", "\r", " "}

\* a local variable: the value v is computed once and F is applied to it
With(v, F(_)) == CHOOSE y \in {F(x) : x \in {v}} : TRUE

\* the concatenation of a sequence of sequences
RECURSIVE Concat(_)
Concat(ss) ==
    IF ss = <<>> THEN <<>>
    ELSE IF Len(ss) = 1 THEN ss[1]
    ELSE Concat(SubSeq(ss, 1, Len(ss) \div 2))
         \o Concat(SubSeq(ss, Len(ss) \div 2 + 1, Len(ss)))

\* the indices 1..Len(s), in order
Indices(s) == [i \in 1..Len(s) |-> i]

\* newlineRegexp.ReplaceAllLiteralString(s, " ") for the expression
\* "(\r\n|\n)". Every "\n" ends a match and the match also takes the "\r"
\* right before it, so the result is s without the "\r" of each "\r\n" and
\* with a space in place of each "\n".
newlineRegexpReplace(s) ==
    LET inMatchBeforeLF(i) == s[i] = "\r" /\ i < Len(s) /\ s[i + 1] = "\n"
    IN  With(SelectSeq(Indices(s), LAMBDA i : ~inMatchBeforeLF(i)),
             LAMBDA kept :
                 [k \in 1..Len(kept) |->
                     IF s[kept[k]] = "\n" THEN " " ELSE s[kept[k]]])

\* spaceRegexpReplace for the expression " {3,}": only runs of three or more
\* spaces are replaced
spaceRegexpReplace_ThreeSpaces(s) ==
    LET run(i) == s[i] = " "
        inLong(i) ==
            /\ run(i)
            /\ \/ i > 2 /\ run(i - 1) /\ run(i - 2)
               \/ i > 1 /\ i < Len(s) /\ run(i - 1) /\ run(i + 1)
               \/ i + 1 < Len(s) /\ run(i + 1) /\ run(i + 2)
    IN  With(SelectSeq(Indices(s),
                       LAMBDA i : ~(inLong(i) /\ i > 1 /\ run(i - 1))),
             LAMBDA kept : [k \in 1..Len(kept) |-> s[kept[k]]])

\* spaceRegexp.ReplaceAllLiteralString(s, " ") for the expression "\s{2,}".
\* The matches are the maximal runs of two or more \s characters; each
\* becomes one space (written at the place of its first character), and a
\* \s character that stands alone is copied as it is.
spaceRegexpReplace(s) ==
    LET afterSpace(i) == i > 1 /\ IsSpace(s[i - 1])
        beforeSpace(i) == i < Len(s) /\ IsSpace(s[i + 1])
    IN  With(SelectSeq(Indices(s),
                       LAMBDA i : ~(IsSpace(s[i]) /\ afterSpace(i))),
             LAMBDA kept :
                 [k \in 1..Len(kept) |->
                     IF IsSpace(s[kept[k]]) /\ beforeSpace(kept[k])
                     THEN " " ELSE s[kept[k]]])

\* the comparison text comp of GuessType (license.go lines 141-149)
Normalize(text) ==
    With(ToLower(text), LAMBDA lower :
    With(newlineRegexpReplace(lower), LAMBDA spaced :
        spaceRegexpReplace(spaced)))

\* scan is a shortcut function to check for a literal match within a string
\* of text (strings.Contains).
scan(text, match) ==
    \E i \in 1..(Len(text) - Len(match) + 1) :
        SubSeq(text, i, i + Len(match) - 1) = match

----------------------------------------------------------------------------
\* License describes a software license: Type, Text and File.

License(type, text, file) == [Type |-> type, Text |-> text, File |-> file]

\* SwitchType with the Mozilla case placed after the BSD case and the ISC
\* case placed before the MIT case
SwitchType_Reordered(comp) ==
    IF scan(comp, PhraseISC) THEN LicenseISC
    ELSE IF scan(comp, PhraseMIT) THEN LicenseMIT
    ELSE IF scan(comp, PhraseApache20) \/ scan(comp, PhraseApache20URL)
         THEN LicenseApache20
    ELSE IF scan(comp, PhraseGPL20) THEN LicenseGPL20
    ELSE IF scan(comp, PhraseGPL30) THEN LicenseGPL30
    ELSE IF scan(comp, PhraseLGPL21) THEN LicenseLGPL21
    ELSE IF scan(comp, PhraseLGPL30) THEN LicenseLGPL30
    ELSE IF scan(comp, PhraseAGPL30) THEN LicenseAGPL30
    ELSE IF scan(comp, PhraseBSD)
         THEN (IF scan(comp, PhraseBSDNeither) THEN LicenseBSD3Clause
               ELSE LicenseBSD2Clause)
    ELSE IF scan(comp, PhraseMPL) /\ scan(comp, PhraseVersion20)
         THEN LicenseMPL20
    ELSE IF scan(comp, PhraseCDDL10) THEN LicenseCDDL10
    ELSE IF scan(comp, PhraseEPL10) THEN LicenseEPL10
    ELSE IF scan(comp, PhraseZlib) THEN LicenseZlib
    ELSE IF scan(comp, PhraseUnlicense) THEN LicenseUnlicense
    ELSE ""

\* SwitchType with one identifier "BSD" for both BSD variants
SwitchType_PlainBSD(comp) ==
    IF scan(comp, PhraseMIT) THEN LicenseMIT
    ELSE IF scan(comp, PhraseISC) THEN LicenseISC
    ELSE IF scan(comp, PhraseApache20) \/ scan(comp, PhraseApache20URL)
         THEN LicenseApache20
    ELSE IF scan(comp, PhraseGPL20) THEN LicenseGPL20
    ELSE IF scan(comp, PhraseGPL30) THEN LicenseGPL30
    ELSE IF scan(comp, PhraseLGPL21) THEN LicenseLGPL21
    ELSE IF scan(comp, PhraseLGPL30) THEN LicenseLGPL30
    ELSE IF scan(comp, PhraseAGPL30) THEN LicenseAGPL30
    ELSE IF scan(comp, PhraseMPL) /\ scan(comp, PhraseVersion20)
         THEN LicenseMPL20
    ELSE IF scan(comp, PhraseBSD) THEN "BSD"
    ELSE IF scan(comp, PhraseCDDL10) THEN LicenseCDDL10
    ELSE IF scan(comp, PhraseEPL10) THEN LicenseEPL10
    ELSE IF scan(comp, PhraseZlib) THEN LicenseZlib
    ELSE IF scan(comp, PhraseUnlicense) THEN LicenseUnlicense
    ELSE ""

\* the switch of GuessType over the comparison text: the Type it assigns,
\* or "" when the default case is taken
SwitchType(comp) ==
    IF scan(comp, PhraseMIT) THEN LicenseMIT
    ELSE IF scan(comp, PhraseISC) THEN LicenseISC
    ELSE IF scan(comp, PhraseApache20) \/ scan(comp, PhraseApache20URL)
         THEN LicenseApache20
    ELSE IF scan(comp, PhraseGPL20) THEN LicenseGPL20
    ELSE IF scan(comp, PhraseGPL30) THEN LicenseGPL30
    ELSE IF scan(comp, PhraseLGPL21) THEN LicenseLGPL21
    ELSE IF scan(comp, PhraseLGPL30) THEN LicenseLGPL30
    ELSE IF scan(comp, PhraseAGPL30) THEN LicenseAGPL30
    ELSE IF scan(comp, PhraseMPL) /\ scan(comp, PhraseVersion20)
         THEN LicenseMPL20
    ELSE IF scan(comp, PhraseBSD)
         THEN (IF scan(comp, PhraseBSDNeither) THEN LicenseBSD3Clause
               ELSE LicenseBSD2Clause)
    ELSE IF scan(comp, PhraseCDDL10) THEN LicenseCDDL10
    ELSE IF scan(comp, PhraseEPL10) THEN LicenseEPL10
    ELSE IF scan(comp, PhraseZlib) THEN LicenseZlib
    ELSE IF scan(comp, PhraseUnlicense) THEN LicenseUnlicense
    ELSE ""

\* GuessType refusing a receiver that holds a Type already
GuessType_RefusesTyped(l) ==
    With(Normalize(l.Text), LAMBDA comp :
    With(SwitchType(comp), LAMBDA t :
        IF t = "" \/ l.Type # ""
        THEN [l |-> l, err |-> ErrUnrecognizedLicense]
        ELSE [l |-> [l EXCEPT !.Type = t], err |-> nil]))

\* GuessType clearing the Type in the default case
GuessType_ClearsOnFailure(l) ==
    With(Normalize(l.Text), LAMBDA comp :
    With(SwitchType(comp), LAMBDA t :
        IF t = ""
        THEN [l |-> [l EXCEPT !.Type = ""], err |-> ErrUnrecognizedLicense]
        ELSE [l |-> [l EXCEPT !.Type = t], err |-> nil]))

\* l.GuessType(): the receiver after the call and the error returned. A
\* matching case assigns l.Type; the default case returns
\* ErrUnrecognizedLicense and assigns nothing.
GuessType(l) ==
    With(Normalize(l.Text), LAMBDA comp :
    With(SwitchType(comp), LAMBDA t :
        IF t = ""
        THEN [l |-> l, err |-> ErrUnrecognizedLicense]
        ELSE [l |-> [l EXCEPT !.Type = t], err |-> nil]))

\* l.Recognized()
Recognized(l) == \E k \in 1..Len(KnownLicenses) : KnownLicenses[k] = l.Type

\* New creates a new License from explicitly passed license type and data
New(licenseType, licenseText) == License(licenseType, licenseText, <<>>)

----------------------------------------------------------------------------
\* The file locator.

\* A set of reasonable license file names to use when guessing where the
\* license may be. Case does not matter.
PatLicense == <<"l","i","c","e","n","s","e","*">>

PatLicence == <<"l","i","c","e","n","c","e","*">>

PatCopying == <<"c","o","p","y","i","n","g","*">>

PatUnlicense == <<"u","n","l","i","c","e","n","s","e">>

DefaultLicenseFiles == <<PatLicense, PatLicence, PatCopying, PatUnlicense>>

\* strings.Replace(license, "*", ".*", -1)
ReplaceStar(license) ==
    Concat([i \in 1..Len(license) |->
               IF license[i] = "*" THEN <<".", "*">> ELSE <<license[i]>>])

\* complileLicensePatters: one expression "(?i)^" + ReplaceStar(license) per
\* entry. A compiled expression is kept as the text that follows "(?i)^".
complileLicensePatters(licenses) ==
    [k \in 1..Len(licenses) |-> ReplaceStar(licenses[k])]

\* Does the expression re[p..] match s from position i on? The expression is
\* read as regexp reads it: ".*" is any run of characters other than "\n",
\* "." alone is one character other than "\n", any other character stands
\* for itself, compared without regard to case because of the flag (?i).
\* Nothing anchors the end of the match.
RECURSIVE MatchAt(_, _, _, _)
MatchAt(re, p, s, i) ==
    IF p > Len(re) THEN TRUE
    ELSE IF re[p] = "." /\ p < Len(re) /\ re[p + 1] = "*"
         THEN \E j \in i..(Len(s) + 1) :
                 /\ \A k \in i..(j - 1) : s[k] # "\n"
                 /\ MatchAt(re, p + 2, s, j)
    ELSE IF re[p] = "."
         THEN i <= Len(s) /\ s[i] # "\n" /\ MatchAt(re, p + 1, s, i + 1)
    ELSE /\ i <= Len(s)
         /\ ToLowerChar(s[i]) = ToLowerChar(re[p])
         /\ MatchAt(re, p + 1, s, i + 1)

\* MatchString for an expression compiled without the "^": the match may
\* start anywhere in file
MatchString_Unanchored(pattern, file) ==
    \E i \in 1..(Len(file) + 1) : MatchAt(pattern, 1, file, i)

\* pattern.MatchString(file) for an expression compiled with the prefix
\* "(?i)^": the match starts at the first character of file.
MatchString(pattern, file) == MatchAt(pattern, 1, file, 1)

\* returns files that case-insensitive matches any of the license files:
\* for each file in turn, one copy of it per pattern that matches it
matchLicenseFile(patterns, files) ==
    Concat([i \in 1..Len(files) |->
               LET hits == SelectSeq(patterns,
                                     LAMBDA p : MatchString(p, files[i]))
               IN  [k \in 1..Len(hits) |-> files[i]]])

\* getLicenseFile without the check for an empty result
getLicenseFile_NeverFails(patterns, files) ==
    [matches |-> matchLicenseFile(patterns, files), err |-> nil]

\* getLicenseFile: the matches, or ErrNoLicenseFile when there are none
getLicenseFile(patterns, files) ==
    With(matchLicenseFile(patterns, files), LAMBDA matches :
        IF Len(matches) = 0
        THEN [matches |-> <<>>, err |-> ErrNoLicenseFile]
        ELSE [matches |-> matches, err |-> nil])

----------------------------------------------------------------------------
\* The file system behind ioutil.ReadDir and ioutil.ReadFile: a directory
\* at DirPath and an empty directory at LockedPath that may not be listed.
\* disk.names are the names in DirPath, in the order ReadDir lists them
\* (sorted by name); disk.content[k] is the file disk.names[k], with mode
\* "ok" and its bytes, or the error that reading it gives.

NameCOPYING == <<"C","O","P","Y","I","N","G">>

NameLICENSE == <<"L","I","C","E","N","S","E">>

NameREADME == <<"R","E","A","D","M","E",".","m","d">>

NameUNLICENSE == <<"U","N","L","I","C","E","N","S","E">>

NameRepo == <<"r","e","p","o">>

NameOther == <<"o","t","h","e","r">>

NameLocked == <<"l","o","c","k","e","d">>

Dot == <<".">>

DotDot == <<".", ".">>

DirPath == <<NameRepo>>

LockedPath == <<NameLocked>>

\* filepath.Clean on a relative path given by its elements: empty and "."
\* elements are dropped, ".." removes the element before it when there is
\* one to remove, and the empty result is ".".
RECURSIVE CleanFrom(_, _)
CleanFrom(elems, acc) ==
    IF elems = <<>> THEN (IF acc = <<>> THEN <<Dot>> ELSE acc)
    ELSE IF Head(elems) \in {<<>>, Dot} THEN CleanFrom(Tail(elems), acc)
    ELSE IF Head(elems) = DotDot /\ acc # <<>> /\ acc[Len(acc)] # DotDot
         THEN CleanFrom(Tail(elems), SubSeq(acc, 1, Len(acc) - 1))
    ELSE CleanFrom(Tail(elems), Append(acc, Head(elems)))

Clean(path) == CleanFrom(path, <<>>)

\* filepath.Join(dir, name)
Join(dir, name) == Clean(dir \o <<name>>)

\* the position of name in the directory, 0 when it is not there
IndexOf(d, name) ==
    IF \E k \in 1..Len(d.names) : d.names[k] = name
    THEN CHOOSE k \in 1..Len(d.names) : d.names[k] = name
    ELSE 0

\* ioutil.ReadFile(path)
ReadFile(d, path) ==
    LET p == Clean(path)
        k == IF Len(p) = 2 /\ p[1] = DirPath[1] THEN IndexOf(d, p[2]) ELSE 0
    IN  IF p \in {DirPath, LockedPath} THEN [data |-> <<>>, err |-> "EISDIR"]
        ELSE IF k = 0 THEN [data |-> <<>>, err |-> "ENOENT"]
        ELSE IF d.content[k].mode # "ok"
             THEN [data |-> <<>>, err |-> d.content[k].mode]
        ELSE [data |-> d.content[k].text, err |-> nil]

\* returns a []string of files in a directory, or error
readDirectory(d, dir) ==
    LET p == Clean(dir)
        k == IF Len(p) = 2 /\ p[1] = DirPath[1] THEN IndexOf(d, p[2]) ELSE 0
    IN  IF p = DirPath THEN [files |-> d.names, err |-> nil]
        ELSE IF p = LockedPath THEN [files |-> <<>>, err |-> "EACCES"]
        ELSE IF k # 0 THEN [files |-> <<>>, err |-> "ENOTDIR"]
        ELSE [files |-> <<>>, err |-> "ENOENT"]

\* NewFromFile will attempt to load a license from a file on disk, and
\* guess the type of license based on the bytes read. l is the sequence of
\* the one License returned, or empty for a nil result.
NewFromFile(d, path) ==
    With(ReadFile(d, path), LAMBDA rd :
        IF rd.err # nil THEN [l |-> <<>>, err |-> rd.err]
        ELSE With(GuessType(License("", rd.data, path)), LAMBDA g :
                 IF g.err # nil THEN [l |-> <<>>, err |-> g.err]
                 ELSE [l |-> <<g.l>>, err |-> nil]))

\* GuessEach putting each License in front of those found before
RECURSIVE GuessEach_Prepends(_, _, _, _)
GuessEach_Prepends(d, dir, matchs, licenses) ==
    IF matchs = <<>> THEN licenses
    ELSE With(NewFromFile(d, Join(dir, Head(matchs))), LAMBDA nf :
             IF nf.err # nil
             THEN GuessEach_Prepends(d, dir, Tail(matchs), licenses)
             ELSE With(GuessType(nf.l[1]), LAMBDA g :
                      IF g.err = nil
                      THEN GuessEach_Prepends(d, dir, Tail(matchs),
                                              <<g.l>> \o licenses)
                      ELSE GuessEach_Prepends(d, dir, Tail(matchs),
                                              licenses)))

\* the loop of guessFromDir over matchs: NewFromFile on the joined path,
\* GuessType once more on its result, and the License is appended when
\* neither failed
RECURSIVE GuessEach(_, _, _, _)
GuessEach(d, dir, matchs, licenses) ==
    IF matchs = <<>> THEN licenses
    ELSE With(NewFromFile(d, Join(dir, Head(matchs))), LAMBDA nf :
             IF nf.err # nil THEN GuessEach(d, dir, Tail(matchs), licenses)
             ELSE With(GuessType(nf.l[1]), LAMBDA g :
                      IF g.err = nil
                      THEN GuessEach(d, dir, Tail(matchs),
                                     Append(licenses, g.l))
                      ELSE GuessEach(d, dir, Tail(matchs), licenses)))

\* guessFromDir reporting a failed listing as ErrNoLicenseFile
guessFromDir_HidesListingError(d, dir) ==
    With(readDirectory(d, dir), LAMBDA rd :
    With(complileLicensePatters(DefaultLicenseFiles), LAMBDA patterns :
    With(getLicenseFile(patterns, rd.files), LAMBDA gl :
        IF gl.err # nil
        THEN [licenses |-> <<>>, err |-> gl.err,
              files |-> rd.files, matchs |-> <<>>]
        ELSE
    With(GuessEach(d, dir, gl.matches, <<>>), LAMBDA licenses :
        IF Len(licenses) = 0
        THEN [licenses |-> <<>>, err |-> ErrUnrecognizedLicense,
              files |-> rd.files, matchs |-> gl.matches]
        ELSE [licenses |-> licenses, err |-> nil,
              files |-> rd.files, matchs |-> gl.matches]))))

\* guessFromDir searches a given directory (non-recursively) for files with
\* well-established names that indicate license content. files and matchs
\* are returned too, for the record of the call.
guessFromDir(d, dir) ==
    With(readDirectory(d, dir), LAMBDA rd :
        IF rd.err # nil
        THEN [licenses |-> <<>>, err |-> rd.err,
              files |-> <<>>, matchs |-> <<>>]
        ELSE
    With(complileLicensePatters(DefaultLicenseFiles), LAMBDA patterns :
    With(getLicenseFile(patterns, rd.files), LAMBDA gl :
        IF gl.err # nil
        THEN [licenses |-> <<>>, err |-> gl.err,
              files |-> rd.files, matchs |-> <<>>]
        ELSE
    With(GuessEach(d, dir, gl.matches, <<>>), LAMBDA licenses :
        IF Len(licenses) = 0
        THEN [licenses |-> <<>>, err |-> ErrUnrecognizedLicense,
              files |-> rd.files, matchs |-> gl.matches]
        ELSE [licenses |-> licenses, err |-> nil,
              files |-> rd.files, matchs |-> gl.matches]))))

----------------------------------------------------------------------------
\* State.
\*   disk       the file system the package reads
\*   ls         the License objects the caller holds: the result of the most
\*              recent constructor call, updated in place by GuessType
\*   ret        the most recent call: its name, argument and error
\*   lastGuess  for each object of ls, the outcome of the most recent
\*              GuessType call on it since it was made and whether that was
\*              the first call on it or a later one (history)
\*   inp, outp  the arguments and the result of the file locator in the most
\*              recent constructor call, empty when it did not call it; in
\*              SpecEdited inp is the change made to the second text

NoGuess == [calls |-> "none", err |-> nil, Type |-> ""]

\* NewFromFile has called GuessType on its result once, guessFromDir twice
GuessedOnce(l) == [calls |-> "one", err |-> nil, Type |-> l.Type]

GuessedAgain(l) == [calls |-> "more", err |-> nil, Type |-> l.Type]

\* the caller invokes New(licenseType, licenseText)
NewCall(licenseType, licenseText) ==
    /\ ls' = <<New(licenseType, licenseText)>>
    /\ ret' = [op |-> "New", arg |-> <<>>, err |-> nil]
    /\ lastGuess' = <<NoGuess>>
    /\ inp' = <<>>
    /\ outp' = <<>>
    /\ UNCHANGED disk

\* the caller invokes NewFromFile(path)
NewFromFileCall(path) ==
    /\ \E r \in {NewFromFile(disk, path)} :
           /\ ls' = r.l
           /\ ret' = [op |-> "NewFromFile", arg |-> path, err |-> r.err]
           /\ lastGuess' = [i \in 1..Len(r.l) |-> GuessedOnce(r.l[i])]
    /\ inp' = <<>>
    /\ outp' = <<>>
    /\ UNCHANGED disk

\* what a call of guessFromDir leaves in inp and outp
LocatorInput(r) ==
    IF r.err \in {nil, ErrNoLicenseFile, ErrUnrecognizedLicense}
    THEN <<[licenses |-> DefaultLicenseFiles, files |-> r.files]>>
    ELSE <<>>

LocatorOutput(r) ==
    IF r.err \in {nil, ErrNoLicenseFile, ErrUnrecognizedLicense}
    THEN <<[matches |-> r.matchs,
            err |-> IF r.err = ErrNoLicenseFile THEN r.err ELSE nil]>>
    ELSE <<>>

\* the caller invokes NewFromDir(dir): ls[0] of guessFromDir, or its error
NewFromDirCall(dir) ==
    /\ \E r \in {guessFromDir(disk, dir)} :
       LET l == IF r.err # nil THEN <<>> ELSE <<r.licenses[1]>>
       IN  /\ ls' = l
           /\ ret' = [op |-> "NewFromDir", arg |-> dir, err |-> r.err]
           /\ lastGuess' = [i \in 1..Len(l) |-> GuessedAgain(l[i])]
           /\ inp' = LocatorInput(r)
           /\ outp' = LocatorOutput(r)
    /\ UNCHANGED disk

\* the caller invokes NewLicencesFromDir(dir)
NewLicencesFromDirCall(dir) ==
    /\ \E r \in {guessFromDir(disk, dir)} :
           /\ ls' = r.licenses
           /\ ret' = [op |-> "NewLicencesFromDir", arg |-> dir,
                      err |-> r.err]
           /\ lastGuess' = [i \in 1..Len(r.licenses) |->
                               GuessedAgain(r.licenses[i])]
           /\ inp' = LocatorInput(r)
           /\ outp' = LocatorOutput(r)
    /\ UNCHANGED disk

\* the caller invokes ls[i].GuessType()
GuessTypeCall(i) ==
    /\ i \in 1..Len(ls)
    /\ \E r \in {GuessType(ls[i])} :
           /\ ls' = [ls EXCEPT ![i] = r.l]
           /\ ret' = [op |-> "GuessType", arg |-> i, err |-> r.err]
           /\ lastGuess' = [lastGuess EXCEPT
                               ![i] = [calls |-> IF lastGuess[i].calls = "none"
                                                 THEN "one" ELSE "more",
                                       err |-> r.err, Type |-> r.l.Type]]
    /\ UNCHANGED <<disk, inp, outp>>

\* the caller invokes ls[i].Recognized()
RecognizedCall(i) ==
    /\ i \in 1..Len(ls)
    /\ ret' = [op |-> IF Recognized(ls[i]) THEN "Recognized: true"
                      ELSE "Recognized: false",
               arg |-> i, err |-> nil]
    /\ UNCHANGED <<disk, ls, lastGuess, inp, outp>>

----------------------------------------------------------------------------
\* The package over a directory of at most MaxFiles files.

MaxFiles == 2

\* the names a directory may hold, in the order ReadDir lists them
FileNames == <<NameCOPYING, NameLICENSE, NameREADME, NameUNLICENSE>>

Contents ==
    {[mode |-> "ok", text |-> RefBSD3],
     [mode |-> "ok", text |-> RefMPLHeading],
     [mode |-> "ok", text |-> HelloWorld],
     [mode |-> "EACCES", text |-> <<>>]}

Listings ==
    {[k \in 1..Len(SelectSeq(Indices(FileNames), LAMBDA i : i \in S)) |->
         FileNames[SelectSeq(Indices(FileNames), LAMBDA i : i \in S)[k]]] :
     S \in {T \in SUBSET (1..Len(FileNames)) : Cardinality(T) <= MaxFiles}}

Disks ==
    {[names |-> ns, content |-> cs] :
     <<ns, cs>> \in UNION {{<<n, c>> : c \in [1..Len(n) -> Contents]} :
                          n \in Listings}}

TypeInputs == {"", "MyLicense"}

TextInputs == {RefBSD2, HelloWorld}

DirInputs ==
    {<<Dot, NameRepo>>, LockedPath, <<NameOther>>, <<NameRepo, NameLICENSE>>}

PathInputs ==
    {<<NameRepo, NameLICENSE>>, <<Dot, NameRepo, NameREADME>>,
     <<NameOther>>, DirPath}

Init ==
    /\ disk \in Disks
    /\ ls = <<>>
    /\ ret = [op |-> "", arg |-> <<>>, err |-> nil]
    /\ lastGuess = <<>>
    /\ inp = <<>>
    /\ outp = <<>>

Next ==
    \/ \E ty \in TypeInputs, t \in TextInputs : NewCall(ty, t)
    \/ \E path \in PathInputs : NewFromFileCall(path)
    \/ \E dir \in DirInputs : NewFromDirCall(dir)
    \/ \E dir \in DirInputs : NewLicencesFromDirCall(dir)
    \/ \E i \in 1..MaxFiles : GuessTypeCall(i)
    \/ \E i \in 1..MaxFiles : RecognizedCall(i)

Spec == Init /\ [][Next]_vars

----------------------------------------------------------------------------
\* Classification of texts: the caller builds a License with New and calls
\* GuessType on it. The texts are concatenations of at most MaxFrags
\* fragments.

MaxFrags == 2

Fragments ==
    {PhraseMIT, PhraseISC, PhraseApache20, PhraseApache20URL, PhraseGPL20,
     PhraseGPL30, PhraseLGPL21, PhraseLGPL30, PhraseAGPL30, PhraseMPL,
     PhraseVersion20, PhraseBSD, PhraseBSDNeither, PhraseCDDL10,
     PhraseEPL10, PhraseZlib, PhraseUnlicense,
     HelloWorld, RefApacheHeading, RefMPLHeading, RefGPL20Heading}

ClassifyTexts ==
    {Concat(fs) : fs \in UNION {[1..n -> Fragments] : n \in 0..MaxFrags}}

NoDisk == [names |-> <<>>, content |-> <<>>]

InitClassify ==
    /\ disk = NoDisk
    /\ \E t \in ClassifyTexts : ls = <<New("", t)>>
    /\ ret = [op |-> "New", arg |-> <<>>, err |-> nil]
    /\ lastGuess = <<NoGuess>>
    /\ inp = <<>>
    /\ outp = <<>>

NextClassify == GuessTypeCall(1)

SpecClassify == InitClassify /\ [][NextClassify]_vars

----------------------------------------------------------------------------
\* The file locator on its own: getLicenseFile over the patterns compiled
\* from at most MaxPatterns license file names and over at most MaxNames
\* file names.

MaxPatterns == 2

MaxNames == 2

PatLiStar == <<"l","i","*">>

PatLIC == <<"L","I","C">>

PatL == <<"l">>

PatADotB == <<"a",".","b">>

PatUn == <<"u","n">>

FileLic == <<"l","i","c">>

FileLi == <<"L","i">>

FileUnlic == <<"u","n","l","i","c">>

FileADotB == <<"a",".","b">>

FileAxb == <<"a","x","b">>

FileX == <<"x">>

PatternInputs == {PatLiStar, PatLIC, PatL, PatADotB, PatUn}

NameInputs == {FileLic, FileLi, FileUnlic, FileADotB, FileAxb, FileX}

SeqsUpTo(S, n) == UNION {[1..m -> S] : m \in 0..n}

\* getLicenseFile(patterns, files) with the patterns complileLicensePatters
\* makes of inp
getLicenseFileCall ==
    /\ outp = <<>>
    /\ \E r \in {getLicenseFile(complileLicensePatters(inp[1].licenses),
                               inp[1].files)} :
           /\ outp' = <<r>>
           /\ ret' = [op |-> "getLicenseFile", arg |-> <<>>, err |-> r.err]
    /\ UNCHANGED <<disk, ls, lastGuess, inp>>

InitLocate ==
    /\ disk = NoDisk
    /\ ls = <<>>
    /\ ret = [op |-> "", arg |-> <<>>, err |-> nil]
    /\ lastGuess = <<>>
    /\ \E ps \in SeqsUpTo(PatternInputs, MaxPatterns),
          fs \in SeqsUpTo(NameInputs, MaxNames) :
           inp = <<[licenses |-> ps, files |-> fs]>>
    /\ outp = <<>>

NextLocate == getLicenseFileCall

SpecLocate == InitLocate /\ [][NextLocate]_vars

----------------------------------------------------------------------------
\* Classification of a text and of the same text with its white space
\* changed: extra spaces or extra blank lines put in at one place, or every
\* line ending made "\r\n". The caller builds a License of each with New and
\* calls GuessType on both.

MaxInsert == 2

RefTexts ==
    {RefMIT, RefISC, RefApacheHeading, RefApacheURL, RefGPL20Heading,
     RefGPL30, RefLGPL21, RefLGPL30, RefAGPL30, RefMPLHeading, RefBSD2,
     RefBSD3, RefCDDL10, RefEPL10, RefZlib, RefUnlicense}

Repeat(c, n) == [i \in 1..n |-> c]

InsertAt(t, p, cs) == SubSeq(t, 1, p) \o cs \o SubSeq(t, p + 1, Len(t))

\* t with every "\n" that no "\r" precedes made "\r\n"
ToCRLF(t) ==
    Concat([i \in 1..Len(t) |->
               IF t[i] = "\n" /\ (i = 1 \/ t[i - 1] # "\r")
               THEN <<"\r", "\n">> ELSE <<t[i]>>])

\* the places where a line starts: the start of t and after each "\n"
LineStarts(t) == {0} \cup {p \in 1..Len(t) : t[p] = "\n"}

Edits(t) ==
    {[kind |-> "spaces", pos |-> p, n |-> n] :
        p \in 0..Len(t), n \in 1..MaxInsert}
    \cup {[kind |-> "blank lines", pos |-> p, n |-> n] :
            p \in LineStarts(t), n \in 1..MaxInsert}
    \cup {[kind |-> "crlf", pos |-> 0, n |-> 0]}

Edited(t, e) ==
    IF e.kind = "spaces" THEN InsertAt(t, e.pos, Repeat(" ", e.n))
    ELSE IF e.kind = "blank lines" THEN InsertAt(t, e.pos, Repeat("\n", e.n))
    ELSE ToCRLF(t)

InitEdited ==
    /\ disk = NoDisk
    /\ \E t \in RefTexts : \E e \in Edits(t) :
           /\ ls = <<New("", t), New("", Edited(t, e))>>
           /\ inp = <<e>>
    /\ ret = [op |-> "New", arg |-> <<>>, err |-> nil]
    /\ lastGuess = <<NoGuess, NoGuess>>
    /\ outp = <<>>

NextEdited == GuessTypeCall(1) \/ GuessTypeCall(2)

SpecEdited == InitEdited /\ [][NextEdited]_vars

----------------------------------------------------------------------------
\* What the claims say, in their own terms.

KnownSet == {KnownLicenses[k] : k \in 1..Len(KnownLicenses)}

\* a pattern without the "*" that may end it
StripStar(p) ==
    IF p # <<>> /\ p[Len(p)] = "*" THEN SubSeq(p, 1, Len(p) - 1) ELSE p

\* name starts with prefix, letters compared without regard to case
HasPrefixFold(name, prefix) ==
    /\ Len(prefix) <= Len(name)
    /\ ToLower(SubSeq(name, 1, Len(prefix))) = ToLower(prefix)

\* name matches a default pattern: license*, licence*, copying*, unlicense
IsCandidate(name) ==
    \E k \in 1..Len(DefaultLicenseFiles) :
        HasPrefixFold(name, StripStar(DefaultLicenseFiles[k]))

\* the classification of a text on its own
ClassOf(text) == GuessType(New("", text))

\* file k of the directory can be read and its content classifies
Classifies(k) ==
    /\ disk.content[k].mode = "ok"
    /\ ClassOf(disk.content[k].text).err = nil

Candidates == {k \in 1..Len(disk.names) : IsCandidate(disk.names[k])}

\* the entities a scan of dir is to return, in listing order
Expected(dir) ==
    LET kept == SelectSeq(Indices(disk.names),
                          LAMBDA k : k \in Candidates /\ Classifies(k))
    IN  [n \in 1..Len(kept) |->
            [Type |-> ClassOf(disk.content[kept[n]].text).l.Type,
             Text |-> disk.content[kept[n]].text,
             File |-> Join(dir, disk.names[kept[n]])]]

DirOps == {"NewFromDir", "NewLicencesFromDir"}

\* the most recent call was a directory scan and its listing was read
ScannedListing == ret.op \in DirOps /\ Clean(ret.arg) = DirPath

\* the most recent call was a directory scan and its listing was not read
ScannedNoListing == ret.op \in DirOps /\ Clean(ret.arg) # DirPath

NoRepeats(s) == \A i, j \in 1..Len(s) : s[i] = s[j] => i = j

----------------------------------------------------------------------------
\* C3: for a readable directory NewLicencesFromDir returns, in listing
\* order, exactly the entities of the listed files whose name matches a
\* default pattern, that can be read and that classify, each with the Type
\* of its content, its raw content as Text and the joined path as File;
\* NewFromDir returns the first of them.
C3_ScanReturnsCandidatesInOrder ==
    ScannedListing =>
        IF ret.op = "NewLicencesFromDir"
        THEN ls = Expected(ret.arg)
        ELSE /\ Len(ls) = (IF Expected(ret.arg) = <<>> THEN 0 ELSE 1)
             /\ \A i \in 1..Len(ls) : ls[i] = Expected(ret.arg)[1]

\* a scan returned two entities of different types, in listing order
C3_Witness ==
    /\ ret.op = "NewLicencesFromDir"
    /\ ret.err = nil
    /\ Len(ls) = 2
    /\ ls[1].Type = LicenseMPL20
    /\ ls[2].Type = LicenseBSD3Clause

\* C4: when the listing was read, a scan fails with ErrNoLicenseFile exactly
\* when no listed name matches a default pattern, with
\* ErrUnrecognizedLicense exactly when some name matches but no matched file
\* can be read and classified, and otherwise succeeds with a result that is
\* not empty.
C4_ScanErrorOutcome ==
    ScannedListing =>
        /\ ret.err = ErrNoLicenseFile <=> Candidates = {}
        /\ ret.err = ErrUnrecognizedLicense <=>
               (Candidates # {} /\ \A k \in Candidates : ~Classifies(k))
        /\ ret.err \notin {ErrNoLicenseFile, ErrUnrecognizedLicense} =>
               (ret.err = nil /\ ls # <<>>)

\* a scan found candidate files and none of them gave an entity
C4_Witness ==
    /\ ScannedListing
    /\ ret.err = ErrUnrecognizedLicense
    /\ Cardinality(Candidates) = 2

\* C5 as claimed: when the directory listing cannot be read, the scan fails
\* with ErrNoLicenseFile.
C5_ListingErrorIsNoLicenseFile ==
    ScannedNoListing => ret.err = ErrNoLicenseFile

\* C5 amended: when the directory listing cannot be read, the scan fails
\* with the error of the read itself, unchanged, and returns no entity.
C5_ListingErrorPropagated ==
    ScannedNoListing =>
        /\ ret.err = readDirectory(disk, ret.arg).err
        /\ ret.err \in {"ENOENT", "EACCES", "ENOTDIR"}
        /\ ls = <<>>

\* a scan of a directory that may not be listed
C5_Witness == ScannedNoListing /\ ret.err = "EACCES"

\* C6 as claimed: every entity's Type is empty or a known identifier, and
\* an entity on which GuessType has succeeded is recognized.
C6_TypeAlwaysEmptyOrKnown ==
    \A i \in 1..Len(ls) :
        /\ ls[i].Type \in KnownSet \cup {""}
        /\ (lastGuess[i].calls # "none" /\ lastGuess[i].err = nil) =>
               Recognized(ls[i])

\* C6 amended: an entity on which GuessType has succeeded (in a call of the
\* caller or inside NewFromFile, NewFromDir or NewLicencesFromDir) holds a
\* known identifier and is recognized; an entity made by New holds the type
\* the caller passed, known or not, until a GuessType call on it succeeds.
C6_GuessedTypeKnown ==
    \A i \in 1..Len(ls) :
        /\ (lastGuess[i].calls # "none" /\ lastGuess[i].err = nil) =>
               (ls[i].Type \in KnownSet /\ Recognized(ls[i]))
        /\ ls[i].Type \notin KnownSet =>
               (ls[i].File = <<>> /\ ls[i].Type \in TypeInputs)

\* an entity made by New has been classified by GuessType
C6_Witness ==
    /\ ret.op = "GuessType"
    /\ ret.err = nil
    /\ ls[ret.arg].File = <<>>
    /\ ls[ret.arg].Type = LicenseBSD2Clause

\* C7: a GuessType call on an entity that GuessType was called on before
\* has the outcome of the call before: the same error, and on success the
\* same Type; and it is the outcome for the same text with no Type set.
C7_GuessTypeIdempotent ==
    [][\A i \in 1..Len(ls) :
          (ret'.op = "GuessType" /\ ret'.arg = i
           /\ lastGuess[i].calls # "none") =>
              /\ lastGuess'[i].err = lastGuess[i].err
              /\ lastGuess'[i].Type = lastGuess[i].Type
              /\ ret'.err = ClassOf(ls[i].Text).err
              /\ ret'.err = nil =>
                     ls'[i].Type = ClassOf(ls[i].Text).l.Type]_vars

\* GuessType has succeeded on an entity for at least the second time
C7_Witness ==
    /\ ret.op = "GuessType"
    /\ ret.err = nil
    /\ lastGuess[ret.arg].calls = "more"

\* C9: a GuessType call changes neither Text nor File of its receiver, a
\* failing call leaves its Type too, and no other entity and no file
\* changes.
C9_GuessTypeFrame ==
    [][\A i \in 1..Len(ls) :
          (ret'.op = "GuessType" /\ ret'.arg = i) =>
              /\ Len(ls') = Len(ls)
              /\ ls'[i].Text = ls[i].Text
              /\ ls'[i].File = ls[i].File
              /\ ret'.err # nil => ls'[i].Type = ls[i].Type
              /\ \A j \in 1..Len(ls) : j # i => ls'[j] = ls[j]
              /\ disk' = disk]_vars

\* GuessType has failed on an entity that holds a type
C9_Witness ==
    /\ ret.op = "GuessType"
    /\ ret.err = ErrUnrecognizedLicense
    /\ ls[ret.arg].Type = "MyLicense"
    /\ ls[ret.arg].Text = HelloWorld

\* C10: with the default patterns and a listing of distinct names, the file
\* locator returns no name twice and the scan returns no two entities with
\* the same File.
C10_NoDuplicateEntities ==
    (ret.op \in DirOps /\ outp # <<>>) =>
        /\ NoRepeats(inp[1].files) => NoRepeats(outp[1].matches)
        /\ \A i, j \in 1..Len(ls) : ls[i].File = ls[j].File => i = j

\* a scan returned the entities of two files, UNLICENSE one of them
C10_Witness ==
    /\ ret.op = "NewLicencesFromDir"
    /\ Len(ls) = 2
    /\ outp[1].matches = <<NameLICENSE, NameUNLICENSE>>

----------------------------------------------------------------------------
\* The rule table of the specification, rules 1 to 14 in its order. A rule
\* holds when all phrases of one of its alternatives are contained in the
\* text.

RuleTable ==
    <<[alts |-> {{PhraseMIT}}, ident |-> LicenseMIT],
      [alts |-> {{PhraseISC}}, ident |-> LicenseISC],
      [alts |-> {{PhraseApache20}, {PhraseApache20URL}},
       ident |-> LicenseApache20],
      [alts |-> {{PhraseGPL20}}, ident |-> LicenseGPL20],
      [alts |-> {{PhraseGPL30}}, ident |-> LicenseGPL30],
      [alts |-> {{PhraseLGPL21}}, ident |-> LicenseLGPL21],
      [alts |-> {{PhraseLGPL30}}, ident |-> LicenseLGPL30],
      [alts |-> {{PhraseAGPL30}}, ident |-> LicenseAGPL30],
      [alts |-> {{PhraseMPL, PhraseVersion20}}, ident |-> LicenseMPL20],
      [alts |-> {{PhraseBSD}}, ident |-> "BSD"],
      [alts |-> {{PhraseCDDL10}}, ident |-> LicenseCDDL10],
      [alts |-> {{PhraseEPL10}}, ident |-> LicenseEPL10],
      [alts |-> {{PhraseZlib}}, ident |-> LicenseZlib],
      [alts |-> {{PhraseUnlicense}}, ident |-> LicenseUnlicense]>>

RuleHolds(k, comp) ==
    \E alt \in RuleTable[k].alts : \A phrase \in alt : scan(comp, phrase)

RulesHolding(comp) == {k \in 1..Len(RuleTable) : RuleHolds(k, comp)}

\* the identifier of rule k; rule 10 gives BSD-3-Clause when "neither the
\* name of" is contained too and BSD-2-Clause otherwise
RuleIdent(k, comp) ==
    IF RuleTable[k].ident # "BSD" THEN RuleTable[k].ident
    ELSE IF scan(comp, PhraseBSDNeither) THEN LicenseBSD3Clause
    ELSE LicenseBSD2Clause

First(S) == CHOOSE k \in S : \A m \in S : k <= m

\* C1: GuessType sets the Type to the identifier of the first rule of the
\* table that holds of the normalized text, and fails with
\* ErrUnrecognizedLicense when no rule holds.
C1_FirstRuleWins ==
    ret.op = "GuessType" =>
        With(Normalize(ls[ret.arg].Text), LAMBDA comp :
        With(RulesHolding(comp), LAMBDA holding :
            IF holding = {}
            THEN ret.err = ErrUnrecognizedLicense
            ELSE /\ ret.err = nil
                 /\ ls[ret.arg].Type = RuleIdent(First(holding), comp)))

\* a text that holds the ISC phrase and then the MIT phrase is MIT
C1_Witness ==
    /\ ret.op = "GuessType"
    /\ ls[1].Text = PhraseISC \o PhraseMIT
    /\ ls[1].Type = LicenseMIT

----------------------------------------------------------------------------
\* the matches the claim describes: each file once per pattern whose text,
\* without a "*" at its end, the name starts with
ExpectedMatches(licenses, files) ==
    Concat([i \in 1..Len(files) |->
               Repeat(files[i],
                      Cardinality({k \in 1..Len(licenses) :
                                      HasPrefixFold(files[i],
                                                    StripStar(licenses[k]))}))])

\* C8: matchLicenseFile returns the file names that start with the text of
\* a pattern (its "*" apart, case ignored), in the order given, once per
\* pattern matched; getLicenseFile fails with ErrNoLicenseFile exactly when
\* there are none.
C8_LocatorMatchesByPrefix ==
    (ret.op = "getLicenseFile") =>
        /\ ExpectedMatches(inp[1].licenses, inp[1].files) = outp[1].matches
        /\ outp[1].err = ErrNoLicenseFile <=> outp[1].matches = <<>>
        /\ outp[1].err \in {nil, ErrNoLicenseFile}

\* both white space variants of a text have been classified
BothGuessed == lastGuess[1].calls # "none" /\ lastGuess[2].calls # "none"

\* the inserted spaces make a run of two or more spaces
MakesRepeatedSpaces ==
    /\ inp[1].kind = "spaces"
    /\ \/ inp[1].n >= 2
       \/ inp[1].pos >= 1 /\ ls[1].Text[inp[1].pos] = " "
       \/ inp[1].pos < Len(ls[1].Text) /\ ls[1].Text[inp[1].pos + 1] = " "

\* the place of the insertion is next to a space or a line ending of the text
AtWhiteSpace ==
    LET t == ls[1].Text
        p == inp[1].pos
    IN  \/ p >= 1 /\ t[p] \in {" ", "\n"}
        \/ p < Len(t) /\ t[p + 1] \in {" ", "\n"}
        \/ p + 1 < Len(t) /\ t[p + 1] = "\r" /\ t[p + 2] = "\n"

\* C2 as claimed: a text that classifies as X still classifies as X with
\* extra blank lines, with CRLF line endings or with repeated spaces put in
\* at any position.
C2_InvariantUnderSpacesAnywhere ==
    (BothGuessed /\ lastGuess[1].err = nil
     /\ (inp[1].kind = "spaces" => MakesRepeatedSpaces)) =>
        (lastGuess[2].err = nil /\ ls[2].Type = ls[1].Type)

\* C2 amended: a text that classifies as X still classifies as X with
\* extra blank lines, with CRLF line endings or with spaces put in next to
\* a space or a line ending that it has.
C2_InvariantUnderWhiteSpace ==
    (BothGuessed /\ lastGuess[1].err = nil
     /\ (inp[1].kind = "spaces" => AtWhiteSpace)) =>
        (lastGuess[2].err = nil /\ ls[2].Type = ls[1].Type)

\* two spaces put in after a line ending of the BSD text, both classified
C2_Witness ==
    /\ BothGuessed
    /\ ls[1].Text = RefBSD3
    /\ inp[1].kind = "spaces"
    /\ inp[1].n = 2
    /\ AtWhiteSpace
    /\ ls[1].Text[inp[1].pos] = "\n"
    /\ ls[2].Type = LicenseBSD3Clause

====
